---- MODULE Spec2Model ----
(***************************************************************************)
(* A model of package binutils (src/binary.go): the primitive byte codec   *)
(* (Read/Write and the typed Read*/Write* pairs over a caller-owned buffer *)
(* and offset) and the Stream wrapper with its error slot.                 *)
(*                                                                         *)
(* Representation.  A byte is an integer 0..255.  A buffer ([]byte) and a  *)
(* string are sequences of bytes; Go index i is TLA+ index i+1.  A fixed   *)
(* width machine word (uint16, int32, uint64, float32 bits, ...) is the    *)
(* sequence of its bits, least significant first, of length its width:     *)
(* signed and unsigned words of one width, and a float and its IEEE bits,  *)
(* share the bit pattern, so Go's uint16(x), int32(x), math.Float32bits    *)
(* and math.Float32frombits keep the sequence as it is.  An error is the   *)
(* sequence of its messages, outermost errors.Wrap first; nil is <<>>.     *)
(***************************************************************************)
EXTENDS Integers, Sequences, FiniteSets, TLC

VARIABLES
    buffer,   \* primitive layer: the caller-owned []byte
    offset,   \* primitive layer: the caller-owned read offset
    pc,       \* primitive layer: the caller's position, "init" / "written" / "read"
    op,       \* primitive layer: the last primitive called, its inputs and results
    Buffer,   \* Stream.Buffer
    Offset,   \* Stream.Offset
    err,      \* Stream.err: the *streamErr and the streamErr it points to
    failed,   \* history: some Get* call on the stream has failed
    call,     \* history: the last Stream method called, its argument and result
    calls,    \* history: the number of Stream methods called so far
    setterCalled  \* history: SetOffset, SetBuffer or SetError has been called directly

codecVars  == <<buffer, offset, pc, op>>
streamVars == <<Buffer, Offset, err, failed, call, calls, setterCalled>>
vars       == <<buffer, offset, pc, op, Buffer, Offset, err, failed, call, calls, setterCalled>>

-----------------------------------------------------------------------------
(* Machine words as bit sequences, and Go's operators on them.             *)

Pow2 == <<1, 2, 4, 8, 16, 32, 64, 128>>

Zero(w) == [i \in 1..w |-> 0]

\* byte(v): the low 8 bits of a word.
ToByte(v) ==
    v[1] + 2 * v[2] + 4 * v[3] + 8 * v[4] + 16 * v[5] + 32 * v[6] + 64 * v[7] + 128 * v[8]

\* uint16(b), uint32(b), uint64(b) of a byte b: zero extension to w bits.
ToWord(b, w) == [i \in 1..w |-> IF i <= 8 THEN (b \div Pow2[i]) % 2 ELSE 0]

\* uint32(n) of a length n >= 0 (len(str), len(bytes)).
FromInt(n, w) == [i \in 1..w |-> IF i <= 31 THEN (n \div (2 ^ (i - 1))) % 2 ELSE 0]

\* The value of bits i..30 of a word, bit i weighing 1.
RECURSIVE BitsValue(_, _)
BitsValue(v, i) == IF i > 30 THEN 0 ELSE v[i] + 2 * BitsValue(v, i + 1)

\* Go's int.  An int is bits wide (64, or 32 on a 32-bit build) and is held
\* as its two's-complement limbs of 16 bits, least significant first (2 or
\* 4 of them), so that sums beyond the model's own integers are exact and
\* wrap around as the machine's do.
\* The int of a constant or of a small int x such as len(buffer) or an offset.
GoInt(x, bits) ==
    LET sign == IF x < 0 THEN 65535 ELSE 0 IN
    IF bits = 32
    THEN <<x % 65536, (x \div 65536) % 65536>>
    ELSE <<x % 65536, (x \div 65536) % 65536, sign, sign>>

\* The largest int.
MaxInt(bits) == IF bits = 32 THEN <<65535, 32767>> ELSE <<65535, 65535, 65535, 32767>>

\* a + b on ints, limb by limb with the carry, wrapping around at the width.
IntPlus(a, b) ==
    LET s1 == a[1] + b[1]
        s2 == a[2] + b[2] + (s1 \div 65536)
    IN  IF Len(a) = 2
        THEN <<s1 % 65536, s2 % 65536>>
        ELSE LET s3 == a[3] + b[3] + (s2 \div 65536)
                 s4 == a[4] + b[4] + (s3 \div 65536)
             IN  <<s1 % 65536, s2 % 65536, s3 % 65536, s4 % 65536>>

IntNegative(a) == a[Len(a)] >= 32768

\* a < b on ints.
IntLess(a, b) ==
    IF IntNegative(a) # IntNegative(b)
    THEN IntNegative(a)
    ELSE \E k \in 1..Len(a) : a[k] < b[k] /\ \A m \in (k + 1)..Len(a) : a[m] = b[m]

\* The model integer of an int between -2^31 and 2^31.
IntValue(a) == a[1] + 65536 * (IF a[2] >= 32768 THEN a[2] - 65536 ELSE a[2])

\* v >> n on an unsigned word.
Shr(v, n) == [i \in 1..Len(v) |-> IF i + n <= Len(v) THEN v[i + n] ELSE 0]

\* v >> n on a signed word (the sign bit is copied in).
Sar(v, n) == [i \in 1..Len(v) |-> IF i + n <= Len(v) THEN v[i + n] ELSE v[Len(v)]]

\* v << n, the bits shifted out of the width dropped.
Shl(v, n) == [i \in 1..Len(v) |-> IF i - n >= 1 THEN v[i - n] ELSE 0]

\* int(l) of a uint32 l: the 32 bits of l, zero-extended to the width.  On
\* a 32-bit build an l of 2^31 and more is a negative int.
ToInt(v, bits) ==
    LET l1 == ToByte(v) + 256 * ToByte(Shr(v, 8))
        l2 == ToByte(Shr(v, 16)) + 256 * ToByte(Shr(v, 24))
    IN  IF bits = 32 THEN <<l1, l2>> ELSE <<l1, l2, 0, 0>>

BitOr(a, b)  == [i \in 1..Len(a) |-> IF a[i] = 1 \/ b[i] = 1 THEN 1 ELSE 0]
BitAnd(a, b) == [i \in 1..Len(a) |-> IF a[i] = 1 /\ b[i] = 1 THEN 1 ELSE 0]
BitXor(a, b) == [i \in 1..Len(a) |-> IF a[i] # b[i] THEN 1 ELSE 0]

\* -v in two's complement.
Neg(v) == [i \in 1..Len(v) |-> IF \E j \in 1..(i - 1) : v[j] = 1 THEN 1 - v[i] ELSE v[i]]

\* b & m on bytes.
ByteAnd(b, m) == ToByte(BitAnd(ToWord(b, 8), ToWord(m, 8)))

\* uint32(x) / uint64(x) of the constant x = -128: 0xFF...F80.
MinusOneTwentyEight(w) == [i \in 1..w |-> IF i <= 7 THEN 0 ELSE 1]

Nil == <<>>

\* errors.New(msg) and errors.Wrap(e, msg).
New(msg)     == <<msg>>
Wrap(e, msg) == <<msg>> \o e

-----------------------------------------------------------------------------
(* The generic primitives.                                                 *)

\* Read moving the offset by length even when it refuses the read.
ReadAdvancingOnError(buf, off, length) ==
    LET o   == GoInt(off, 16 * Len(length))
        end == IntPlus(o, length)
    IN  IF IntLess(GoInt(Len(buf), 16 * Len(length)), end)
        THEN [b |-> <<>>, err |-> <<"Not enough bytes to read">>, offset |-> IntValue(end),
              panic |-> FALSE]
        ELSE IF off < 0 \/ IntLess(end, o)
        THEN [b |-> <<>>, err |-> <<>>, offset |-> off, panic |-> TRUE]
        ELSE [b |-> SubSeq(buf, off + 1, IntValue(end)), err |-> <<>>,
              offset |-> IntValue(end), panic |-> FALSE]

\* The rest of Read once its ints are known: n is len(*buffer), o is *offset
\* and end is *offset+length.  When the length check passes, the slice
\* expression panics unless 0 <= *offset <= *offset+length, and then the
\* offset is not advanced.
ReadSlice(buf, off, n, o, end) ==
    IF IntLess(n, end)
    THEN [b |-> <<>>, err |-> New("Not enough bytes to read"), offset |-> off,
          panic |-> FALSE]
    ELSE IF off < 0 \/ IntLess(end, o)
    THEN [b |-> <<>>, err |-> Nil, offset |-> off, panic |-> TRUE]
    ELSE [b |-> SubSeq(buf, off + 1, IntValue(end)), err |-> Nil,
          offset |-> IntValue(end), panic |-> FALSE]

\* Read: [b, err, offset, panic].  off is a model integer, length an int.
\* The sum *offset+length wraps around at the int's width.
Read(buf, off, length) ==
    ReadSlice(buf, off, GoInt(Len(buf), 16 * Len(length)), GoInt(off, 16 * Len(length)),
              IntPlus(GoInt(off, 16 * Len(length)), length))

Write(buf, v) == Append(buf, v)

\* The result of a typed Read*: the value, the error and the offset left behind.
Res(out, e, off) == [out |-> out, err |-> e, offset |-> off, panic |-> FALSE]

\* A typed Read* whose Read panicked: it does not return, and the offset is
\* what it was when the slice expression was evaluated.
Panicked(off) == [out |-> 0, err |-> Nil, offset |-> off, panic |-> TRUE]

-----------------------------------------------------------------------------
(* The fixed-width kinds.                                                  *)

\* b[i] of a Go slice.
Idx(b, i) == b[i + 1]

\* x | y | ... over words of one width.
OrAll(ws) ==
    [i \in 1..Len(ws[1]) |-> IF \E k \in 1..Len(ws) : ws[k][i] = 1 THEN 1 ELSE 0]

WriteByte(buf, v) == Write(buf, v)

WriteBool(buf, v) == IF v THEN WriteByte(buf, 1) ELSE WriteByte(buf, 0)

ReadBool(buf, off, bits) ==
    LET r == Read(buf, off, GoInt(1, bits)) IN
    IF r.panic THEN Panicked(r.offset)
    ELSE IF r.err # Nil
    THEN Res(FALSE, Wrap(r.err, "Error reading byte for bool"), r.offset)
    ELSE Res(Idx(r.b, 0) # 0, Nil, r.offset)

ReadByte(buf, off, bits) ==
    LET r == Read(buf, off, GoInt(1, bits)) IN
    IF r.panic THEN Panicked(r.offset)
    ELSE IF r.err # Nil
    THEN Res(0, Wrap(r.err, "Error reading byte"), r.offset)
    ELSE Res(Idx(r.b, 0), Nil, r.offset)

WriteUnsignedByte(buf, v) == WriteByte(buf, v)

ReadUnsignedByte(buf, off, bits) ==
    LET r == Read(buf, off, GoInt(1, bits)) IN
    IF r.panic THEN Panicked(r.offset)
    ELSE IF r.err # Nil
    THEN Res(0, Wrap(r.err, "Error reading unsigned byte"), r.offset)
    ELSE Res(Idx(r.b, 0), Nil, r.offset)

\* v is uint16(signed).
WriteShort(buf, v) ==
    buf \o <<ToByte(Shr(v, 8)), ToByte(v)>>

ReadShort(buf, off, bits) ==
    LET r == Read(buf, off, GoInt(2, bits)) IN
    IF r.panic THEN Panicked(r.offset)
    ELSE IF r.err # Nil
    THEN Res(Zero(16), Wrap(r.err, "Error reading bytes for short"), r.offset)
    ELSE Res(OrAll(<<ToWord(Idx(r.b, 1), 16),
                       Shl(ToWord(Idx(r.b, 0), 16), 8)>>),
             Nil, r.offset)

WriteUnsignedShort(buf, v) ==
    buf \o <<ToByte(Shr(v, 8)), ToByte(v)>>

ReadUnsignedShort(buf, off, bits) ==
    LET r == Read(buf, off, GoInt(2, bits)) IN
    IF r.panic THEN Panicked(r.offset)
    ELSE IF r.err # Nil
    THEN Res(Zero(16), Wrap(r.err, "Error reading bytes for unsigned short"), r.offset)
    ELSE Res(OrAll(<<ToWord(Idx(r.b, 1), 16),
                       Shl(ToWord(Idx(r.b, 0), 16), 8)>>),
             Nil, r.offset)

\* v is uint32(int).
WriteInt(buf, v) ==
    buf \o <<ToByte(Shr(v, 24)), ToByte(Shr(v, 16)), ToByte(Shr(v, 8)), ToByte(v)>>

ReadInt(buf, off, bits) ==
    LET r == Read(buf, off, GoInt(4, bits)) IN
    IF r.panic THEN Panicked(r.offset)
    ELSE IF r.err # Nil
    THEN Res(Zero(32), Wrap(r.err, "Error reading bytes for int"), r.offset)
    ELSE Res(OrAll(<<ToWord(Idx(r.b, 3), 32),
                       Shl(ToWord(Idx(r.b, 2), 32), 8),
                       Shl(ToWord(Idx(r.b, 1), 32), 16),
                       Shl(ToWord(Idx(r.b, 0), 32), 24)>>),
             Nil, r.offset)

WriteUnsignedInt(buf, v) ==
    buf \o <<ToByte(Shr(v, 24)), ToByte(Shr(v, 16)), ToByte(Shr(v, 8)), ToByte(v)>>

ReadUnsignedInt(buf, off, bits) ==
    LET r == Read(buf, off, GoInt(4, bits)) IN
    IF r.panic THEN Panicked(r.offset)
    ELSE IF r.err # Nil
    THEN Res(Zero(32), Wrap(r.err, "Error reading bytes for unsigned int"), r.offset)
    ELSE Res(OrAll(<<ToWord(Idx(r.b, 3), 32),
                       Shl(ToWord(Idx(r.b, 2), 32), 8),
                       Shl(ToWord(Idx(r.b, 1), 32), 16),
                       Shl(ToWord(Idx(r.b, 0), 32), 24)>>),
             Nil, r.offset)

\* v is uint64(long).
WriteLong(buf, v) ==
    buf \o <<ToByte(Shr(v, 56)), ToByte(Shr(v, 48)), ToByte(Shr(v, 40)), ToByte(Shr(v, 32)), ToByte(Shr(v, 24)), ToByte(Shr(v, 16)), ToByte(Shr(v, 8)), ToByte(v)>>

ReadLong(buf, off, bits) ==
    LET r == Read(buf, off, GoInt(8, bits)) IN
    IF r.panic THEN Panicked(r.offset)
    ELSE IF r.err # Nil
    THEN Res(Zero(64), Wrap(r.err, "Error reading bytes for long"), r.offset)
    ELSE Res(OrAll(<<ToWord(Idx(r.b, 7), 64),
                       Shl(ToWord(Idx(r.b, 6), 64), 8),
                       Shl(ToWord(Idx(r.b, 5), 64), 16),
                       Shl(ToWord(Idx(r.b, 4), 64), 24),
                       Shl(ToWord(Idx(r.b, 3), 64), 32),
                       Shl(ToWord(Idx(r.b, 2), 64), 40),
                       Shl(ToWord(Idx(r.b, 1), 64), 48),
                       Shl(ToWord(Idx(r.b, 0), 64), 56)>>),
             Nil, r.offset)

WriteUnsignedLong(buf, v) ==
    buf \o <<ToByte(Shr(v, 56)), ToByte(Shr(v, 48)), ToByte(Shr(v, 40)), ToByte(Shr(v, 32)), ToByte(Shr(v, 24)), ToByte(Shr(v, 16)), ToByte(Shr(v, 8)), ToByte(v)>>

ReadUnsignedLong(buf, off, bits) ==
    LET r == Read(buf, off, GoInt(8, bits)) IN
    IF r.panic THEN Panicked(r.offset)
    ELSE IF r.err # Nil
    THEN Res(Zero(64), Wrap(r.err, "Error reading bytes for unsigned long"), r.offset)
    ELSE Res(OrAll(<<ToWord(Idx(r.b, 7), 64),
                       Shl(ToWord(Idx(r.b, 6), 64), 8),
                       Shl(ToWord(Idx(r.b, 5), 64), 16),
                       Shl(ToWord(Idx(r.b, 4), 64), 24),
                       Shl(ToWord(Idx(r.b, 3), 64), 32),
                       Shl(ToWord(Idx(r.b, 2), 64), 40),
                       Shl(ToWord(Idx(r.b, 1), 64), 48),
                       Shl(ToWord(Idx(r.b, 0), 64), 56)>>),
             Nil, r.offset)

\* v is math.Float32bits(float).
WriteFloat(buf, v) ==
    buf \o <<ToByte(Shr(v, 24)), ToByte(Shr(v, 16)), ToByte(Shr(v, 8)), ToByte(v)>>

ReadFloat(buf, off, bits) ==
    LET r == Read(buf, off, GoInt(4, bits)) IN
    IF r.panic THEN Panicked(r.offset)
    ELSE IF r.err # Nil
    THEN Res(Zero(32), Wrap(r.err, "Error reading bytes for float"), r.offset)
    ELSE Res(OrAll(<<ToWord(Idx(r.b, 3), 32),
                       Shl(ToWord(Idx(r.b, 2), 32), 8),
                       Shl(ToWord(Idx(r.b, 1), 32), 16),
                       Shl(ToWord(Idx(r.b, 0), 32), 24)>>),
             Nil, r.offset)

\* v is math.Float64bits(double).
WriteDouble(buf, v) ==
    buf \o <<ToByte(Shr(v, 56)), ToByte(Shr(v, 48)), ToByte(Shr(v, 40)), ToByte(Shr(v, 32)), ToByte(Shr(v, 24)), ToByte(Shr(v, 16)), ToByte(Shr(v, 8)), ToByte(v)>>

ReadDouble(buf, off, bits) ==
    LET r == Read(buf, off, GoInt(8, bits)) IN
    IF r.panic THEN Panicked(r.offset)
    ELSE IF r.err # Nil
    THEN Res(Zero(64), Wrap(r.err, "Error reading bytes for double"), r.offset)
    ELSE Res(OrAll(<<ToWord(Idx(r.b, 7), 64),
                       Shl(ToWord(Idx(r.b, 6), 64), 8),
                       Shl(ToWord(Idx(r.b, 5), 64), 16),
                       Shl(ToWord(Idx(r.b, 4), 64), 24),
                       Shl(ToWord(Idx(r.b, 3), 64), 32),
                       Shl(ToWord(Idx(r.b, 2), 64), 40),
                       Shl(ToWord(Idx(r.b, 1), 64), 48),
                       Shl(ToWord(Idx(r.b, 0), 64), 56)>>),
             Nil, r.offset)

\* v is uint16(signed).
WriteLittleShort(buf, v) ==
    buf \o <<ToByte(v), ToByte(Shr(v, 8))>>

ReadLittleShort(buf, off, bits) ==
    LET r == Read(buf, off, GoInt(2, bits)) IN
    IF r.panic THEN Panicked(r.offset)
    ELSE IF r.err # Nil
    THEN Res(Zero(16), Wrap(r.err, "Error reading bytes for little endian short"), r.offset)
    ELSE Res(OrAll(<<ToWord(Idx(r.b, 0), 16),
                       Shl(ToWord(Idx(r.b, 1), 16), 8)>>),
             Nil, r.offset)

WriteLittleUnsignedShort(buf, v) ==
    buf \o <<ToByte(v), ToByte(Shr(v, 8))>>

ReadLittleUnsignedShort(buf, off, bits) ==
    LET r == Read(buf, off, GoInt(2, bits)) IN
    IF r.panic THEN Panicked(r.offset)
    ELSE IF r.err # Nil
    THEN Res(Zero(16), Wrap(r.err, "Error reading bytes for unsigned little endian short"), r.offset)
    ELSE Res(OrAll(<<ToWord(Idx(r.b, 0), 16),
                       Shl(ToWord(Idx(r.b, 1), 16), 8)>>),
             Nil, r.offset)

\* v is uint32(int).
WriteLittleInt(buf, v) ==
    buf \o <<ToByte(v), ToByte(Shr(v, 8)), ToByte(Shr(v, 16)), ToByte(Shr(v, 24))>>

ReadLittleInt(buf, off, bits) ==
    LET r == Read(buf, off, GoInt(4, bits)) IN
    IF r.panic THEN Panicked(r.offset)
    ELSE IF r.err # Nil
    THEN Res(Zero(32), Wrap(r.err, "Error reading bytes for little endian int"), r.offset)
    ELSE Res(OrAll(<<ToWord(Idx(r.b, 0), 32),
                       Shl(ToWord(Idx(r.b, 1), 32), 8),
                       Shl(ToWord(Idx(r.b, 2), 32), 16),
                       Shl(ToWord(Idx(r.b, 3), 32), 24)>>),
             Nil, r.offset)

WriteLittleUnsignedInt(buf, v) ==
    buf \o <<ToByte(v), ToByte(Shr(v, 8)), ToByte(Shr(v, 16)), ToByte(Shr(v, 24))>>

ReadLittleUnsignedInt(buf, off, bits) ==
    LET r == Read(buf, off, GoInt(4, bits)) IN
    IF r.panic THEN Panicked(r.offset)
    ELSE IF r.err # Nil
    THEN Res(Zero(32), Wrap(r.err, "Error reading bytes for unsigned little endian int"), r.offset)
    ELSE Res(OrAll(<<ToWord(Idx(r.b, 0), 32),
                       Shl(ToWord(Idx(r.b, 1), 32), 8),
                       Shl(ToWord(Idx(r.b, 2), 32), 16),
                       Shl(ToWord(Idx(r.b, 3), 32), 24)>>),
             Nil, r.offset)

\* WriteLittleLong filling its bytes in big-endian order.
WriteLittleLongBigOrder(buf, v) == WriteLong(buf, v)

\* v is uint64(long).
WriteLittleLong(buf, v) ==
    buf \o <<ToByte(v), ToByte(Shr(v, 8)), ToByte(Shr(v, 16)), ToByte(Shr(v, 24)), ToByte(Shr(v, 32)), ToByte(Shr(v, 40)), ToByte(Shr(v, 48)), ToByte(Shr(v, 56))>>

ReadLittleLong(buf, off, bits) ==
    LET r == Read(buf, off, GoInt(8, bits)) IN
    IF r.panic THEN Panicked(r.offset)
    ELSE IF r.err # Nil
    THEN Res(Zero(64), Wrap(r.err, "Error reading bytes for little endian long"), r.offset)
    ELSE Res(OrAll(<<ToWord(Idx(r.b, 0), 64),
                       Shl(ToWord(Idx(r.b, 1), 64), 8),
                       Shl(ToWord(Idx(r.b, 2), 64), 16),
                       Shl(ToWord(Idx(r.b, 3), 64), 24),
                       Shl(ToWord(Idx(r.b, 4), 64), 32),
                       Shl(ToWord(Idx(r.b, 5), 64), 40),
                       Shl(ToWord(Idx(r.b, 6), 64), 48),
                       Shl(ToWord(Idx(r.b, 7), 64), 56)>>),
             Nil, r.offset)

WriteLittleUnsignedLong(buf, v) ==
    buf \o <<ToByte(v), ToByte(Shr(v, 8)), ToByte(Shr(v, 16)), ToByte(Shr(v, 24)), ToByte(Shr(v, 32)), ToByte(Shr(v, 40)), ToByte(Shr(v, 48)), ToByte(Shr(v, 56))>>

ReadLittleUnsignedLong(buf, off, bits) ==
    LET r == Read(buf, off, GoInt(8, bits)) IN
    IF r.panic THEN Panicked(r.offset)
    ELSE IF r.err # Nil
    THEN Res(Zero(64), Wrap(r.err, "Error reading bytes for unsigned little endian long"), r.offset)
    ELSE Res(OrAll(<<ToWord(Idx(r.b, 0), 64),
                       Shl(ToWord(Idx(r.b, 1), 64), 8),
                       Shl(ToWord(Idx(r.b, 2), 64), 16),
                       Shl(ToWord(Idx(r.b, 3), 64), 24),
                       Shl(ToWord(Idx(r.b, 4), 64), 32),
                       Shl(ToWord(Idx(r.b, 5), 64), 40),
                       Shl(ToWord(Idx(r.b, 6), 64), 48),
                       Shl(ToWord(Idx(r.b, 7), 64), 56)>>),
             Nil, r.offset)

\* v is math.Float32bits(float).
WriteLittleFloat(buf, v) ==
    buf \o <<ToByte(v), ToByte(Shr(v, 8)), ToByte(Shr(v, 16)), ToByte(Shr(v, 24))>>

ReadLittleFloat(buf, off, bits) ==
    LET r == Read(buf, off, GoInt(4, bits)) IN
    IF r.panic THEN Panicked(r.offset)
    ELSE IF r.err # Nil
    THEN Res(Zero(32), Wrap(r.err, "Error reading bytes for little endian float"), r.offset)
    ELSE Res(OrAll(<<ToWord(Idx(r.b, 0), 32),
                       Shl(ToWord(Idx(r.b, 1), 32), 8),
                       Shl(ToWord(Idx(r.b, 2), 32), 16),
                       Shl(ToWord(Idx(r.b, 3), 32), 24)>>),
             Nil, r.offset)

\* v is math.Float64bits(double).
WriteLittleDouble(buf, v) ==
    buf \o <<ToByte(v), ToByte(Shr(v, 8)), ToByte(Shr(v, 16)), ToByte(Shr(v, 24)), ToByte(Shr(v, 32)), ToByte(Shr(v, 40)), ToByte(Shr(v, 48)), ToByte(Shr(v, 56))>>

ReadLittleDouble(buf, off, bits) ==
    LET r == Read(buf, off, GoInt(8, bits)) IN
    IF r.panic THEN Panicked(r.offset)
    ELSE IF r.err # Nil
    THEN Res(Zero(64), Wrap(r.err, "Error reading bytes for little endian double"), r.offset)
    ELSE Res(OrAll(<<ToWord(Idx(r.b, 0), 64),
                       Shl(ToWord(Idx(r.b, 1), 64), 8),
                       Shl(ToWord(Idx(r.b, 2), 64), 16),
                       Shl(ToWord(Idx(r.b, 3), 64), 24),
                       Shl(ToWord(Idx(r.b, 4), 64), 32),
                       Shl(ToWord(Idx(r.b, 5), 64), 40),
                       Shl(ToWord(Idx(r.b, 6), 64), 48),
                       Shl(ToWord(Idx(r.b, 7), 64), 56)>>),
             Nil, r.offset)

-----------------------------------------------------------------------------
(* Triads.                                                                 *)

\* ReadBigTriad masking the top byte with 0xFF instead of 0x0F.
ReadBigTriadFullByte(buf, off, bits) ==
    LET r == Read(buf, off, GoInt(3, bits)) IN
    IF r.panic THEN Panicked(r.offset)
    ELSE IF r.err # Nil
    THEN Res(Zero(32), Wrap(r.err, "Error reading bytes for big endian triad"), r.offset)
    ELSE Res(OrAll(<<ToWord(Idx(r.b, 2), 32),
                     Shl(ToWord(Idx(r.b, 1), 32), 8),
                     Shl(ToWord(Idx(r.b, 0), 32), 16)>>),
             Nil, r.offset)

ReadBigTriad(buf, off, bits) ==
    LET r == Read(buf, off, GoInt(3, bits)) IN
    IF r.panic THEN Panicked(r.offset)
    ELSE IF r.err # Nil
    THEN Res(Zero(32), Wrap(r.err, "Error reading bytes for big endian triad"), r.offset)
    ELSE Res(OrAll(<<BitAnd(ToWord(Idx(r.b, 2), 32), ToWord(255, 32)),
                     Shl(BitAnd(ToWord(Idx(r.b, 1), 32), ToWord(255, 32)), 8),
                     Shl(BitAnd(ToWord(Idx(r.b, 0), 32), ToWord(15, 32)), 16)>>),
             Nil, r.offset)

WriteLittleTriad(buf, v) ==
    Write(Write(Write(buf,
        ToByte(BitAnd(v, ToWord(255, 32)))),
        ByteAnd(ToByte(Shr(v, 8)), 255)),
        ByteAnd(ToByte(Shr(v, 16)), 255))

ReadLittleTriad(buf, off, bits) ==
    LET r == Read(buf, off, GoInt(3, bits)) IN
    IF r.panic THEN Panicked(r.offset)
    ELSE IF r.err # Nil
    THEN Res(Zero(32), Wrap(r.err, "Error reading bytes for little endian triad"), r.offset)
    ELSE Res(OrAll(<<BitAnd(ToWord(Idx(r.b, 0), 32), ToWord(255, 32)),
                     Shl(BitAnd(ToWord(Idx(r.b, 1), 32), ToWord(255, 32)), 8),
                     Shl(BitAnd(ToWord(Idx(r.b, 2), 32), ToWord(15, 32)), 16)>>),
             Nil, r.offset)

WriteBigTriad(buf, v) ==
    Write(Write(Write(buf,
        ByteAnd(ToByte(Shr(v, 16)), 255)),
        ByteAnd(ToByte(Shr(v, 8)), 255)),
        ToByte(BitAnd(v, ToWord(255, 32))))

-----------------------------------------------------------------------------
(* Zig-zag and the variable-length integers.                               *)

toZigZag32(n) == BitXor(Shl(n, 1), Sar(n, 31))

fromZigZag32(n) == BitXor(Shr(n, 1), Neg(BitAnd(n, ToWord(1, 32))))

toZigZag64(n) == BitXor(Shl(n, 1), Sar(n, 63))

fromZigZag64(n) == BitXor(Shr(n, 1), Neg(BitAnd(n, ToWord(1, 64))))

\* WriteUnsignedVarInt shifting by a whole byte (8) after each 7-bit group.
RECURSIVE WriteUnsignedVarIntShift8(_, _)
WriteUnsignedVarIntShift8(buf, value) ==
    IF BitAnd(value, MinusOneTwentyEight(32)) # Zero(32)
    THEN WriteUnsignedVarIntShift8(
             Write(buf, ToByte(BitOr(BitAnd(value, ToWord(127, 32)), ToWord(128, 32)))),
             Shr(value, 8))
    ELSE Write(buf, ToByte(value))

RECURSIVE WriteUnsignedVarInt(_, _)
WriteUnsignedVarInt(buf, value) ==
    IF BitAnd(value, MinusOneTwentyEight(32)) # Zero(32)
    THEN WriteUnsignedVarInt(
             Write(buf, ToByte(BitOr(BitAnd(value, ToWord(127, 32)), ToWord(128, 32)))),
             Shr(value, 7))
    ELSE Write(buf, ToByte(value))

\* One pass of ReadUnsignedVarInt's do-while loop, from its Read to its loop
\* condition.  (The source's test b0 < 0 is never true of a byte.)
RECURSIVE ReadUnsignedVarIntLoop(_, _, _, _, _)
ReadUnsignedVarIntLoop(buf, off, result, j, bits) ==
    LET r == Read(buf, off, GoInt(1, bits)) IN
    IF r.panic THEN Panicked(r.offset)
    ELSE IF r.err # Nil
    THEN Res(Zero(32), Wrap(r.err, "Couldn't get next byte of unsigned varint"), r.offset)
    ELSE LET b0 == Idx(r.b, 0)
             result1 == BitOr(result, Shl(ToWord(ByteAnd(b0, 127), 32), j * 7))
             j1 == j + 1
         IN  IF j1 > 5
             THEN Res(Zero(32), New("Unsigned varint too big"), r.offset)
             ELSE IF ByteAnd(b0, 128) # 0
             THEN ReadUnsignedVarIntLoop(buf, r.offset, result1, j1, bits)
             ELSE Res(result1, Nil, r.offset)

ReadUnsignedVarInt(buf, off, bits) == ReadUnsignedVarIntLoop(buf, off, Zero(32), 0, bits)

RECURSIVE WriteUnsignedVarLong(_, _)
WriteUnsignedVarLong(buf, value) ==
    IF BitAnd(value, MinusOneTwentyEight(64)) # Zero(64)
    THEN WriteUnsignedVarLong(
             Write(buf, ToByte(BitOr(BitAnd(value, ToWord(127, 64)), ToWord(128, 64)))),
             Shr(value, 7))
    ELSE Write(buf, ToByte(value))

\* ReadUnsignedVarLong's loop giving up one group early (j > 9).
RECURSIVE ReadUnsignedVarLongLoopLimit9(_, _, _, _, _)
ReadUnsignedVarLongLoopLimit9(buf, off, result, j, bits) ==
    LET r == Read(buf, off, GoInt(1, bits)) IN
    IF r.panic THEN Panicked(r.offset)
    ELSE IF r.err # Nil
    THEN Res(Zero(64), Wrap(r.err, "Error reading unsigned var long"), r.offset)
    ELSE LET b0 == Idx(r.b, 0)
             result1 == BitOr(result, Shl(ToWord(ByteAnd(b0, 127), 64), j * 7))
             j1 == j + 1
         IN  IF j1 > 9
             THEN Res(Zero(64), New("Unsigned var long too big"), r.offset)
             ELSE IF ByteAnd(b0, 128) # 0
             THEN ReadUnsignedVarLongLoopLimit9(buf, r.offset, result1, j1, bits)
             ELSE Res(result1, Nil, r.offset)

RECURSIVE ReadUnsignedVarLongLoop(_, _, _, _, _)
ReadUnsignedVarLongLoop(buf, off, result, j, bits) ==
    LET r == Read(buf, off, GoInt(1, bits)) IN
    IF r.panic THEN Panicked(r.offset)
    ELSE IF r.err # Nil
    THEN Res(Zero(64), Wrap(r.err, "Error reading unsigned var long"), r.offset)
    ELSE LET b0 == Idx(r.b, 0)
             result1 == BitOr(result, Shl(ToWord(ByteAnd(b0, 127), 64), j * 7))
             j1 == j + 1
         IN  IF j1 > 10
             THEN Res(Zero(64), New("Unsigned var long too big"), r.offset)
             ELSE IF ByteAnd(b0, 128) # 0
             THEN ReadUnsignedVarLongLoop(buf, r.offset, result1, j1, bits)
             ELSE Res(result1, Nil, r.offset)

ReadUnsignedVarLong(buf, off, bits) == ReadUnsignedVarLongLoop(buf, off, Zero(64), 0, bits)

WriteVarInt(buf, value) == WriteUnsignedVarInt(buf, toZigZag32(value))

ReadVarInt(buf, off, bits) ==
    LET u == ReadUnsignedVarInt(buf, off, bits) IN
    IF u.panic THEN Panicked(u.offset)
    ELSE IF u.err # Nil
    THEN Res(Zero(32), Wrap(u.err, "Error reading varint"), u.offset)
    ELSE Res(fromZigZag32(u.out), Nil, u.offset)

WriteVarLong(buf, value) == WriteUnsignedVarLong(buf, toZigZag64(value))

ReadVarLong(buf, off, bits) ==
    LET u == ReadUnsignedVarLong(buf, off, bits) IN
    IF u.panic THEN Panicked(u.offset)
    ELSE IF u.err # Nil
    THEN Res(Zero(64), Wrap(u.err, "Error reading var long"), u.offset)
    ELSE Res(fromZigZag64(u.out), Nil, u.offset)

-----------------------------------------------------------------------------
(* Length-prefixed strings.                                                *)

WriteString(buf, str) == WriteUnsignedVarInt(buf, FromInt(Len(str), 32)) \o str

ReadString(buf, off, bits) ==
    LET l == ReadUnsignedVarInt(buf, off, bits) IN
    IF l.panic THEN Panicked(l.offset)
    ELSE IF l.err # Nil
    THEN Res(<<>>, Wrap(l.err, "Error reading length of string"), l.offset)
    ELSE LET strbytes == Read(buf, l.offset, ToInt(l.out, bits)) IN
         IF strbytes.panic THEN Panicked(strbytes.offset)
         ELSE IF strbytes.err # Nil
         THEN Res(<<>>, Wrap(strbytes.err, "Error reading the bytes of the string"),
                  strbytes.offset)
         ELSE Res(strbytes.b, Nil, strbytes.offset)

-----------------------------------------------------------------------------
(* The Stream and its constructors.                                        *)

\* A *[]byte: nil, or the slice it points to.
NilBuf      == [nil |-> TRUE, bytes |-> <<>>]
BufPtr(buf) == [nil |-> FALSE, bytes |-> buf]

\* A *streamErr: field nil tells a nil pointer; the other fields are those of
\* the streamErr it points to.
StreamErrPtr(e, off, buf) == [nil |-> FALSE, err |-> e, offset |-> off, buf |-> buf]

NewStream == [Offset |-> 0, Buffer |-> <<>>, err |-> StreamErrPtr(Nil, 0, NilBuf)]

NewGetStream(buf, off) ==
    [Offset |-> off, Buffer |-> buf, err |-> StreamErrPtr(Nil, 0, BufPtr(buf))]

\* No Stream method has been called yet.
NoCall ==
    [op |-> "none", kind |-> "none", arg |-> 0, ret |-> 0, failed |-> FALSE, panic |-> FALSE]

-----------------------------------------------------------------------------
(* The primitive layer as a state machine: a caller owns a buffer and an   *)
(* offset, appends one value with a Write* and decodes with a Read*.       *)

MaxPrefix  == 1    \* a Write* is tried on buffers of at most this length
MaxRun     == 11   \* longest run of continuation bytes in an initial buffer
MaxTail    == 1    \* longest tail after the run in an initial buffer
MaxReadLen == 3    \* largest length passed to the generic Read

Seqs(S, n) == UNION {[1..k -> S] : k \in 0..n}

\* Initial buffers: a run of 0xFF bytes (continuation bit and all value bits
\* set) followed by a short tail of 0x01 and 0x80 bytes.
\* The var-ints 2^31 - 1 and 2^32 - 1: as the length of a string, lengths
\* that a 32-bit int wraps on or holds as -1.
LongLengths == {<<255, 255, 255, 255, 7>>, <<255, 255, 255, 255, 15>>}

Bufs ==
    {[i \in 1..k |-> 255] \o t : k \in 0..MaxRun, t \in Seqs({1, 128}, MaxTail)}
    \cup LongLengths

\* The widths of Go's int: 64 bits, or 32 on a 32-bit build.
IntSizes == {32, 64}

\* The widths a typed read is run at.  ReadString passes a decoded length to
\* Read and is run at both.  Every other typed read adds a constant of at
\* most 8 to an offset within the buffer, a sum that wraps at neither width,
\* so its result does not depend on the width and it is run at one.
IntSizesFor(k) == IF k = "String" THEN IntSizes ELSE {64}

\* The lengths passed to the generic Read: -1, the small lengths, and the
\* largest int.
ReadLengths(bits) == {GoInt(n, bits) : n \in (-1)..MaxReadLen} \cup {MaxInt(bits)}

\* The word whose bytes, most significant first, are bs.
Word(bs) ==
    [i \in 1..(8 * Len(bs)) |-> (bs[Len(bs) - ((i - 1) \div 8)] \div Pow2[((i - 1) % 8) + 1]) % 2]

Ones(w)       == [i \in 1..w |-> 1]
MinSigned(w)  == [i \in 1..w |-> IF i = w THEN 1 ELSE 0]
MaxSigned(w)  == [i \in 1..w |-> IF i = w THEN 0 ELSE 1]
LowOnes(w, k) == [i \in 1..w |-> IF i <= k THEN 1 ELSE 0]   \* 2^k - 1
Bit(w, k)     == [i \in 1..w |-> IF i = k + 1 THEN 1 ELSE 0] \* 2^k

SampleBytes == {0, 1, 127, 128, 255}

\* 0, -1 (the unsigned maximum), the signed minimum and maximum, 0x0102...
SampleWords(w) ==
    {Zero(w), Ones(w), MinSigned(w), MaxSigned(w), Word([i \in 1..(w \div 8) |-> i])}

\* With 1.0, +Inf and a NaN.
SampleFloats ==
    SampleWords(32) \cup {Word(<<63, 128, 0, 0>>), Word(<<127, 128, 0, 0>>), Word(<<127, 192, 0, 1>>)}

SampleDoubles ==
    SampleWords(64) \cup {Word(<<63, 240, 0, 0, 0, 0, 0, 0>>), Word(<<127, 240, 0, 0, 0, 0, 0, 0>>),
                          Word(<<127, 248, 0, 0, 0, 0, 0, 1>>)}

\* 0, 0xFFFFFFFF, 0x000FFFFF, 0x00100000, 0x00123456, 0x12ABCDEF, 0x00FFFFFF
SampleTriads ==
    {Zero(32), Ones(32), LowOnes(32, 20), Bit(32, 20), Word(<<0, 18, 52, 86>>),
     Word(<<18, 171, 205, 239>>), LowOnes(32, 24)}

\* 2^k - 1 and 2^k at every 7-bit group boundary, and the extremes.
SampleVarInts ==
    {LowOnes(32, k) : k \in {0, 1, 7, 14, 21, 28, 31, 32}}
        \cup {Bit(32, k) : k \in {7, 14, 21, 28, 31}}
        \cup {Word(<<1, 2, 3, 4>>)}

SampleVarLongs ==
    {LowOnes(64, k) : k \in {0, 1, 7, 14, 21, 28, 35, 42, 49, 56, 63, 64}}
        \cup {Bit(64, k) : k \in {7, 14, 21, 28, 35, 42, 49, 56, 63}}
        \cup {Word(<<1, 2, 3, 4, 5, 6, 7, 8>>)}

\* "", "hello", and a string of 128 bytes (a two-byte length prefix).
SampleStrings == {<<>>, <<104, 101, 108, 108, 111>>, [i \in 1..128 |-> 97]}

NoWrite == [name |-> "none", v |-> 0, base |-> 0]
NoRead  == [name |-> "none", from |-> 0, len |-> 0, out |-> 0, err |-> Nil, panic |-> FALSE]

Written(name, v, base) == [name |-> name, v |-> v, base |-> base]
Got(name, from, out, e, panic) ==
    [name |-> name, from |-> from, len |-> 0, out |-> out, err |-> e, panic |-> panic]

InitCodec ==
    /\ buffer \in Bufs
    /\ offset \in 0..Len(buffer)
    /\ pc = "init"
    /\ op = [w |-> NoWrite, r |-> NoRead]
    /\ Buffer = NewStream.Buffer
    /\ Offset = NewStream.Offset
    /\ err = NewStream.err
    /\ failed = FALSE
    /\ call = NoCall
    /\ calls = 0
    /\ setterCalled = FALSE

CallRead ==
    /\ pc # "read"
    /\ \E bits \in IntSizes : \E length \in ReadLengths(bits) :
          LET r == Read(buffer, offset, length) IN
          /\ offset' = r.offset
          /\ op' = [op EXCEPT !.r = [name |-> "Read", from |-> offset, len |-> length,
                                      out |-> r.b, err |-> r.err, panic |-> r.panic]]
    /\ pc' = "read"
    /\ UNCHANGED <<buffer, Buffer, Offset, err, failed, call, calls, setterCalled>>

CallWrite ==
    /\ pc = "init"
    /\ Len(buffer) <= MaxPrefix
    /\ \E v \in SampleBytes :
          /\ buffer' = Write(buffer, v)
          /\ op' = [w |-> Written("Write", v, Len(buffer)), r |-> NoRead]
    /\ pc' = "written"
    /\ UNCHANGED <<offset, Buffer, Offset, err, failed, call, calls, setterCalled>>

FixedKinds ==
    {"Bool", "Byte", "UnsignedByte", "Short", "UnsignedShort", "Int", "UnsignedInt",
     "Long", "UnsignedLong", "Float", "Double", "LittleShort", "LittleUnsignedShort",
     "LittleInt", "LittleUnsignedInt", "LittleLong", "LittleUnsignedLong",
     "LittleFloat", "LittleDouble"}
TriadKinds == {"BigTriad", "LittleTriad"}
VarKinds   == {"UnsignedVarInt", "UnsignedVarLong", "VarInt", "VarLong", "String"}
Kinds      == FixedKinds \cup TriadKinds \cup VarKinds

\* The values a caller passes to Write<k>.
SamplesOf(k) ==
    CASE k = "Bool" -> BOOLEAN
      [] k = "Byte" -> SampleBytes
      [] k = "UnsignedByte" -> SampleBytes
      [] k = "Short" -> SampleWords(16)
      [] k = "UnsignedShort" -> SampleWords(16)
      [] k = "Int" -> SampleWords(32)
      [] k = "UnsignedInt" -> SampleWords(32)
      [] k = "Long" -> SampleWords(64)
      [] k = "UnsignedLong" -> SampleWords(64)
      [] k = "Float" -> SampleFloats
      [] k = "Double" -> SampleDoubles
      [] k = "LittleShort" -> SampleWords(16)
      [] k = "LittleUnsignedShort" -> SampleWords(16)
      [] k = "LittleInt" -> SampleWords(32)
      [] k = "LittleUnsignedInt" -> SampleWords(32)
      [] k = "LittleLong" -> SampleWords(64)
      [] k = "LittleUnsignedLong" -> SampleWords(64)
      [] k = "LittleFloat" -> SampleFloats
      [] k = "LittleDouble" -> SampleDoubles
      [] k = "BigTriad" -> SampleTriads
      [] k = "LittleTriad" -> SampleTriads
      [] k = "VarInt" -> SampleVarInts
      [] k = "VarLong" -> SampleVarLongs
      [] k = "UnsignedVarInt" -> SampleVarInts
      [] k = "UnsignedVarLong" -> SampleVarLongs
      [] k = "String" -> SampleStrings

\* Write<k>(&buffer, v): the buffer it leaves.
WriteTyped(k, buf, v) ==
    CASE k = "Bool" -> WriteBool(buf, v)
      [] k = "Byte" -> WriteByte(buf, v)
      [] k = "UnsignedByte" -> WriteUnsignedByte(buf, v)
      [] k = "Short" -> WriteShort(buf, v)
      [] k = "UnsignedShort" -> WriteUnsignedShort(buf, v)
      [] k = "Int" -> WriteInt(buf, v)
      [] k = "UnsignedInt" -> WriteUnsignedInt(buf, v)
      [] k = "Long" -> WriteLong(buf, v)
      [] k = "UnsignedLong" -> WriteUnsignedLong(buf, v)
      [] k = "Float" -> WriteFloat(buf, v)
      [] k = "Double" -> WriteDouble(buf, v)
      [] k = "LittleShort" -> WriteLittleShort(buf, v)
      [] k = "LittleUnsignedShort" -> WriteLittleUnsignedShort(buf, v)
      [] k = "LittleInt" -> WriteLittleInt(buf, v)
      [] k = "LittleUnsignedInt" -> WriteLittleUnsignedInt(buf, v)
      [] k = "LittleLong" -> WriteLittleLong(buf, v)
      [] k = "LittleUnsignedLong" -> WriteLittleUnsignedLong(buf, v)
      [] k = "LittleFloat" -> WriteLittleFloat(buf, v)
      [] k = "LittleDouble" -> WriteLittleDouble(buf, v)
      [] k = "BigTriad" -> WriteBigTriad(buf, v)
      [] k = "LittleTriad" -> WriteLittleTriad(buf, v)
      [] k = "VarInt" -> WriteVarInt(buf, v)
      [] k = "VarLong" -> WriteVarLong(buf, v)
      [] k = "UnsignedVarInt" -> WriteUnsignedVarInt(buf, v)
      [] k = "UnsignedVarLong" -> WriteUnsignedVarLong(buf, v)
      [] k = "String" -> WriteString(buf, v)

\* Read<k>(&buffer, &offset): its value and error and the offset it leaves.
ReadTyped(k, buf, off, bits) ==
    CASE k = "Bool" -> ReadBool(buf, off, bits)
      [] k = "Byte" -> ReadByte(buf, off, bits)
      [] k = "UnsignedByte" -> ReadUnsignedByte(buf, off, bits)
      [] k = "Short" -> ReadShort(buf, off, bits)
      [] k = "UnsignedShort" -> ReadUnsignedShort(buf, off, bits)
      [] k = "Int" -> ReadInt(buf, off, bits)
      [] k = "UnsignedInt" -> ReadUnsignedInt(buf, off, bits)
      [] k = "Long" -> ReadLong(buf, off, bits)
      [] k = "UnsignedLong" -> ReadUnsignedLong(buf, off, bits)
      [] k = "Float" -> ReadFloat(buf, off, bits)
      [] k = "Double" -> ReadDouble(buf, off, bits)
      [] k = "LittleShort" -> ReadLittleShort(buf, off, bits)
      [] k = "LittleUnsignedShort" -> ReadLittleUnsignedShort(buf, off, bits)
      [] k = "LittleInt" -> ReadLittleInt(buf, off, bits)
      [] k = "LittleUnsignedInt" -> ReadLittleUnsignedInt(buf, off, bits)
      [] k = "LittleLong" -> ReadLittleLong(buf, off, bits)
      [] k = "LittleUnsignedLong" -> ReadLittleUnsignedLong(buf, off, bits)
      [] k = "LittleFloat" -> ReadLittleFloat(buf, off, bits)
      [] k = "LittleDouble" -> ReadLittleDouble(buf, off, bits)
      [] k = "BigTriad" -> ReadBigTriad(buf, off, bits)
      [] k = "LittleTriad" -> ReadLittleTriad(buf, off, bits)
      [] k = "VarInt" -> ReadVarInt(buf, off, bits)
      [] k = "VarLong" -> ReadVarLong(buf, off, bits)
      [] k = "UnsignedVarInt" -> ReadUnsignedVarInt(buf, off, bits)
      [] k = "UnsignedVarLong" -> ReadUnsignedVarLong(buf, off, bits)
      [] k = "String" -> ReadString(buf, off, bits)

\* The caller appends one value with a typed Write*.
CallWriteTyped ==
    /\ pc = "init"
    /\ Len(buffer) <= MaxPrefix
    /\ \E k \in Kinds : \E v \in SamplesOf(k) :
          /\ buffer' = WriteTyped(k, buffer, v)
          /\ op' = [w |-> Written(k, v, Len(buffer)), r |-> NoRead]
    /\ pc' = "written"
    /\ UNCHANGED <<offset, Buffer, Offset, err, failed, call, calls, setterCalled>>

\* The caller decodes one value with a typed Read*.
CallReadTyped ==
    /\ pc # "read"
    /\ \E k \in Kinds : \E bits \in IntSizesFor(k) :
          LET r == ReadTyped(k, buffer, offset, bits) IN
          /\ offset' = r.offset
          /\ op' = [op EXCEPT !.r = Got(k, offset, r.out, r.err, r.panic)]
    /\ pc' = "read"
    /\ UNCHANGED <<buffer, Buffer, Offset, err, failed, call, calls, setterCalled>>

NextCodec ==
    \/ CallRead
    \/ CallWrite
    \/ CallWriteTyped
    \/ CallReadTyped

SpecCodec == InitCodec /\ [][NextCodec]_vars

-----------------------------------------------------------------------------
(* The Stream as a state machine: one action per method.                   *)

MaxCalls == 2  \* the caller makes at most this many method calls on the stream

\* The streams the caller constructs: an empty one (its offset at the end of
\* its buffer), one over a buffer long enough for every fixed-width Get* to
\* succeed on, and one with a single byte left to read.
Streams ==
    {NewStream, NewGetStream(<<1, 2, 3, 4, 5, 6, 7, 8, 9>>, 0),
     NewGetStream(<<128, 1>>, 1)}
\* The lengths passed to Get.
GetLengths             == {-1, 0, 1, 2}
StreamBools            == BOOLEAN
StreamBytes            == {1, 128}
\* 0x0180, 0x01800180, 0x0180018001800180
StreamWords(n)         == {Word([i \in 1..n |-> IF i % 2 = 1 THEN 1 ELSE 128])}
StreamTriads           == {Word(<<0, 128, 1, 1>>)}
StreamUnsignedVarInts  == {FromInt(128, 32)}
StreamUnsignedVarLongs == {FromInt(128, 64)}
\* -1: zig-zag 1
StreamVarInts          == {Ones(32)}
StreamVarLongs         == {Ones(64)}
StreamStrings          == {<<>>, <<1>>}
\* The arguments of the setters: an offset before the buffer and one past
\* the nine-byte buffer, a one-byte buffer, an error and nil.
SetOffsets             == {-1, 10}
SetBuffers             == {<<9>>}
SetErrors              == {Nil, New("mine")}

\* Error(): the error interface wrapping the *streamErr held in stream.err.
\* An interface holding a pointer is not the nil interface, whatever the pointer.
NilError == [type |-> "nil", ptr |-> StreamErrPtr(Nil, 0, NilBuf)]
Error    == [type |-> "*streamErr", ptr |-> err]

\* SetError on the streamErr e points to, with the stream's Offset off.
SetError(e, off, x) == [e EXCEPT !.err = x, !.offset = off]

\* One more method call is made, within the bound on the calls.
Calling == calls < MaxCalls /\ calls' = calls + 1

Called(name, kind, arg, ret, fail, panic) ==
    [op |-> name, kind |-> kind, arg |-> arg, ret |-> ret, failed |-> fail, panic |-> panic]

\* The body shared by the Get* methods: the Read* primitive has run on
\* &stream.Buffer and &stream.Offset with result r; on error SetError is
\* called (dereferencing stream.err, which panics when it is nil); r.out is
\* returned.  When the Read* itself panicked nothing is returned or recorded.
GetStep(name, r) ==
    /\ Calling
    /\ Offset' = r.offset
    /\ err' = IF r.err # Nil /\ ~err.nil THEN SetError(err, r.offset, r.err) ELSE err
    /\ failed' = (failed \/ r.err # Nil)
    /\ call' = Called(name, "get", 0, r.out, r.err # Nil, r.panic \/ (r.err # Nil /\ err.nil))
    /\ UNCHANGED <<Buffer, setterCalled>>

\* The early return of the guarded Get* methods.
LatchedStep(name, zero) ==
    /\ Calling
    /\ call' = Called(name, "get", 0, zero, FALSE, FALSE)
    /\ UNCHANGED <<Buffer, Offset, err, failed, setterCalled>>

\* A Put* that also moves the read cursor past the bytes it appended.
PutStepMovingOffset(name, v, buf) ==
    /\ Calling
    /\ Buffer' = buf
    /\ Offset' = Offset + (Len(buf) - Len(Buffer))
    /\ call' = Called(name, "put", v, 0, FALSE, FALSE)
    /\ UNCHANGED <<err, failed, setterCalled>>

\* The body shared by the Put* methods: buf is the buffer the Write* primitive
\* leaves in stream.Buffer.
PutStep(name, v, buf) ==
    /\ Calling
    /\ Buffer' = buf
    /\ call' = Called(name, "put", v, 0, FALSE, FALSE)
    /\ UNCHANGED <<Offset, err, failed, setterCalled>>

InitStream ==
    /\ \E s \in Streams :
          /\ Buffer = s.Buffer
          /\ Offset = s.Offset
          /\ err = s.err
    /\ failed = FALSE
    /\ call = NoCall
    /\ calls = 0
    /\ setterCalled = FALSE
    /\ buffer = <<>>
    /\ offset = 0
    /\ pc = "init"
    /\ op = [w |-> NoWrite, r |-> NoRead]

Feof ==
    /\ Calling
    /\ call' = Called("Feof", "feof", 0, Offset >= Len(Buffer) - 1, FALSE, FALSE)
    /\ UNCHANGED <<Buffer, Offset, err, failed, setterCalled>>
    /\ UNCHANGED codecVars

Get ==
    /\ Calling
    /\ \E length \in GetLengths, bits \in IntSizes :
          IF ~err.nil
          THEN /\ call' = Called("Get", "get", length, <<>>, FALSE, FALSE)
               /\ UNCHANGED <<Buffer, Offset, err, failed, setterCalled>>
          ELSE LET n == IF length < 0 THEN Len(Buffer) - Offset - 1 ELSE length
                   r == Read(Buffer, Offset, GoInt(n, bits))
               IN  /\ Offset' = r.offset
                   /\ err' = err
                   /\ failed' = (failed \/ r.err # Nil)
                   /\ call' = Called("Get", "get", length, r.b, r.err # Nil,
                                     r.panic \/ r.err # Nil)
                   /\ UNCHANGED <<Buffer, setterCalled>>
    /\ UNCHANGED codecVars

PutBool ==
    /\ \E v \in StreamBools : PutStep("PutBool", v, WriteBool(Buffer, v))
    /\ UNCHANGED codecVars

GetBool ==
    /\ \E bits \in IntSizes : GetStep("GetBool", ReadBool(Buffer, Offset, bits))
    /\ UNCHANGED codecVars

PutByte ==
    /\ \E v \in StreamBytes : PutStep("PutByte", v, WriteByte(Buffer, v))
    /\ UNCHANGED codecVars

GetByte ==
    /\ \E bits \in IntSizes : GetStep("GetByte", ReadByte(Buffer, Offset, bits))
    /\ UNCHANGED codecVars

PutUnsignedByte ==
    /\ \E v \in StreamBytes : PutStep("PutUnsignedByte", v, WriteUnsignedByte(Buffer, v))
    /\ UNCHANGED codecVars

GetUnsignedByte ==
    /\ \E bits \in IntSizes : GetStep("GetUnsignedByte", ReadUnsignedByte(Buffer, Offset, bits))
    /\ UNCHANGED codecVars

PutShort ==
    /\ \E v \in StreamWords(2) : PutStep("PutShort", v, WriteShort(Buffer, v))
    /\ UNCHANGED codecVars

GetShort ==
    /\ \E bits \in IntSizes : GetStep("GetShort", ReadShort(Buffer, Offset, bits))
    /\ UNCHANGED codecVars

PutUnsignedShort ==
    /\ \E v \in StreamWords(2) : PutStep("PutUnsignedShort", v, WriteUnsignedShort(Buffer, v))
    /\ UNCHANGED codecVars

GetUnsignedShort ==
    /\ \E bits \in IntSizes : GetStep("GetUnsignedShort", ReadUnsignedShort(Buffer, Offset, bits))
    /\ UNCHANGED codecVars

PutInt ==
    /\ \E v \in StreamWords(4) : PutStep("PutInt", v, WriteInt(Buffer, v))
    /\ UNCHANGED codecVars

GetInt ==
    /\ \E bits \in IntSizes : GetStep("GetInt", ReadInt(Buffer, Offset, bits))
    /\ UNCHANGED codecVars

PutUnsignedInt ==
    /\ \E v \in StreamWords(4) : PutStep("PutUnsignedInt", v, WriteUnsignedInt(Buffer, v))
    /\ UNCHANGED codecVars

GetUnsignedInt ==
    /\ \E bits \in IntSizes : GetStep("GetUnsignedInt", ReadUnsignedInt(Buffer, Offset, bits))
    /\ UNCHANGED codecVars

PutLong ==
    /\ \E v \in StreamWords(8) : PutStep("PutLong", v, WriteLong(Buffer, v))
    /\ UNCHANGED codecVars

GetLong ==
    /\ \E bits \in IntSizes : GetStep("GetLong", ReadLong(Buffer, Offset, bits))
    /\ UNCHANGED codecVars

PutUnsignedLong ==
    /\ \E v \in StreamWords(8) : PutStep("PutUnsignedLong", v, WriteUnsignedLong(Buffer, v))
    /\ UNCHANGED codecVars

GetUnsignedLong ==
    /\ \E bits \in IntSizes : GetStep("GetUnsignedLong", ReadUnsignedLong(Buffer, Offset, bits))
    /\ UNCHANGED codecVars

PutFloat ==
    /\ \E v \in StreamWords(4) : PutStep("PutFloat", v, WriteFloat(Buffer, v))
    /\ UNCHANGED codecVars

GetFloat ==
    /\ \E bits \in IntSizes : GetStep("GetFloat", ReadFloat(Buffer, Offset, bits))
    /\ UNCHANGED codecVars

PutDouble ==
    /\ \E v \in StreamWords(8) : PutStep("PutDouble", v, WriteDouble(Buffer, v))
    /\ UNCHANGED codecVars

GetDouble ==
    /\ \E bits \in IntSizes : GetStep("GetDouble", ReadDouble(Buffer, Offset, bits))
    /\ UNCHANGED codecVars

PutVarInt ==
    /\ \E v \in StreamVarInts : PutStep("PutVarInt", v, WriteVarInt(Buffer, v))
    /\ UNCHANGED codecVars

GetVarInt ==
    /\ IF ~err.nil
       THEN LatchedStep("GetVarInt", Zero(32))
       ELSE \E bits \in IntSizes : GetStep("GetVarInt", ReadVarInt(Buffer, Offset, bits))
    /\ UNCHANGED codecVars

PutVarLong ==
    /\ \E v \in StreamVarLongs : PutStep("PutVarLong", v, WriteVarLong(Buffer, v))
    /\ UNCHANGED codecVars

GetVarLong ==
    /\ IF ~err.nil
       THEN LatchedStep("GetVarLong", Zero(64))
       ELSE \E bits \in IntSizes : GetStep("GetVarLong", ReadVarLong(Buffer, Offset, bits))
    /\ UNCHANGED codecVars

PutUnsignedVarInt ==
    /\ \E v \in StreamUnsignedVarInts : PutStep("PutUnsignedVarInt", v, WriteUnsignedVarInt(Buffer, v))
    /\ UNCHANGED codecVars

GetUnsignedVarInt ==
    /\ IF ~err.nil
       THEN LatchedStep("GetUnsignedVarInt", Zero(32))
       ELSE \E bits \in IntSizes : GetStep("GetUnsignedVarInt", ReadUnsignedVarInt(Buffer, Offset, bits))
    /\ UNCHANGED codecVars

PutUnsignedVarLong ==
    /\ \E v \in StreamUnsignedVarLongs : PutStep("PutUnsignedVarLong", v, WriteUnsignedVarLong(Buffer, v))
    /\ UNCHANGED codecVars

GetUnsignedVarLong ==
    /\ IF ~err.nil
       THEN LatchedStep("GetUnsignedVarLong", Zero(64))
       ELSE \E bits \in IntSizes : GetStep("GetUnsignedVarLong", ReadUnsignedVarLong(Buffer, Offset, bits))
    /\ UNCHANGED codecVars

PutString ==
    /\ \E v \in StreamStrings :
          PutStep("PutString", v, WriteUnsignedVarInt(Buffer, FromInt(Len(v), 32)) \o v)
    /\ UNCHANGED codecVars

GetString ==
    /\ IF ~err.nil
       THEN LatchedStep("GetString", <<>>)
       ELSE \E bits \in IntSizes : GetStep("GetString", ReadString(Buffer, Offset, bits))
    /\ UNCHANGED codecVars

PutLittleShort ==
    /\ \E v \in StreamWords(2) : PutStep("PutLittleShort", v, WriteLittleShort(Buffer, v))
    /\ UNCHANGED codecVars

GetLittleShort ==
    /\ \E bits \in IntSizes : GetStep("GetLittleShort", ReadLittleShort(Buffer, Offset, bits))
    /\ UNCHANGED codecVars

PutLittleUnsignedShort ==
    /\ \E v \in StreamWords(2) : PutStep("PutLittleUnsignedShort", v, WriteLittleUnsignedShort(Buffer, v))
    /\ UNCHANGED codecVars

GetLittleUnsignedShort ==
    /\ \E bits \in IntSizes : GetStep("GetLittleUnsignedShort", ReadLittleUnsignedShort(Buffer, Offset, bits))
    /\ UNCHANGED codecVars

PutLittleInt ==
    /\ \E v \in StreamWords(4) : PutStep("PutLittleInt", v, WriteLittleInt(Buffer, v))
    /\ UNCHANGED codecVars

GetLittleInt ==
    /\ \E bits \in IntSizes : GetStep("GetLittleInt", ReadLittleInt(Buffer, Offset, bits))
    /\ UNCHANGED codecVars

PutLittleUnsignedInt ==
    /\ \E v \in StreamWords(4) : PutStep("PutLittleUnsignedInt", v, WriteLittleUnsignedInt(Buffer, v))
    /\ UNCHANGED codecVars

GetLittleUnsignedInt ==
    /\ \E bits \in IntSizes : GetStep("GetLittleUnsignedInt", ReadLittleUnsignedInt(Buffer, Offset, bits))
    /\ UNCHANGED codecVars

PutLittleLong ==
    /\ \E v \in StreamWords(8) : PutStep("PutLittleLong", v, WriteLittleLong(Buffer, v))
    /\ UNCHANGED codecVars

GetLittleLong ==
    /\ \E bits \in IntSizes : GetStep("GetLittleLong", ReadLittleLong(Buffer, Offset, bits))
    /\ UNCHANGED codecVars

PutLittleUnsignedLong ==
    /\ \E v \in StreamWords(8) : PutStep("PutLittleUnsignedLong", v, WriteLittleUnsignedLong(Buffer, v))
    /\ UNCHANGED codecVars

GetLittleUnsignedLong ==
    /\ \E bits \in IntSizes : GetStep("GetLittleUnsignedLong", ReadLittleUnsignedLong(Buffer, Offset, bits))
    /\ UNCHANGED codecVars

PutLittleFloat ==
    /\ \E v \in StreamWords(4) : PutStep("PutLittleFloat", v, WriteLittleFloat(Buffer, v))
    /\ UNCHANGED codecVars

GetLittleFloat ==
    /\ \E bits \in IntSizes : GetStep("GetLittleFloat", ReadLittleFloat(Buffer, Offset, bits))
    /\ UNCHANGED codecVars

PutLittleDouble ==
    /\ \E v \in StreamWords(8) : PutStep("PutLittleDouble", v, WriteLittleDouble(Buffer, v))
    /\ UNCHANGED codecVars

GetLittleDouble ==
    /\ \E bits \in IntSizes : GetStep("GetLittleDouble", ReadLittleDouble(Buffer, Offset, bits))
    /\ UNCHANGED codecVars

PutTriad ==
    /\ \E v \in StreamTriads : PutStep("PutTriad", v, WriteBigTriad(Buffer, v))
    /\ UNCHANGED codecVars

GetTriad ==
    /\ \E bits \in IntSizes : GetStep("GetTriad", ReadBigTriad(Buffer, Offset, bits))
    /\ UNCHANGED codecVars

PutLittleTriad ==
    /\ \E v \in StreamTriads : PutStep("PutLittleTriad", v, WriteLittleTriad(Buffer, v))
    /\ UNCHANGED codecVars

GetLittleTriad ==
    /\ \E bits \in IntSizes : GetStep("GetLittleTriad", ReadLittleTriad(Buffer, Offset, bits))
    /\ UNCHANGED codecVars

PutBytes ==
    /\ \E v \in StreamStrings : PutStep("PutBytes", v, Buffer \o v)
    /\ UNCHANGED codecVars

PutLengthPrefixedBytes ==
    /\ \E v \in StreamStrings :
          PutStep("PutLengthPrefixedBytes", v,
                  WriteUnsignedVarInt(Buffer, FromInt(Len(v), 32)) \o v)
    /\ UNCHANGED codecVars

GetLengthPrefixedBytes ==
    /\ IF ~err.nil
       THEN LatchedStep("GetLengthPrefixedBytes", <<>>)
       ELSE \E bits \in IntSizes :
               GetStep("GetLengthPrefixedBytes", ReadString(Buffer, Offset, bits))
    /\ UNCHANGED codecVars

\* SetError called by the user of the stream.
CallSetError ==
    /\ Calling
    /\ \E x \in SetErrors :
          /\ err' = IF err.nil THEN err ELSE SetError(err, Offset, x)
          /\ call' = Called("SetError", "set", x, 0, FALSE, err.nil)
    /\ setterCalled' = TRUE
    /\ UNCHANGED <<Buffer, Offset, failed>>
    /\ UNCHANGED codecVars

SetOffset ==
    /\ Calling
    /\ \E o \in SetOffsets :
          /\ Offset' = o
          /\ call' = Called("SetOffset", "set", o, 0, FALSE, FALSE)
    /\ setterCalled' = TRUE
    /\ UNCHANGED <<Buffer, err, failed>>
    /\ UNCHANGED codecVars

SetBuffer ==
    /\ Calling
    /\ \E b \in SetBuffers :
          /\ Buffer' = b
          /\ call' = Called("SetBuffer", "set", b, 0, FALSE, FALSE)
    /\ setterCalled' = TRUE
    /\ UNCHANGED <<Offset, err, failed>>
    /\ UNCHANGED codecVars

ResetStream ==
    /\ Calling
    /\ Offset' = 0
    /\ Buffer' = <<>>
    /\ call' = Called("ResetStream", "reset", 0, 0, FALSE, FALSE)
    /\ UNCHANGED <<err, failed, setterCalled>>
    /\ UNCHANGED codecVars

Next ==
    \/ Feof
    \/ Get
    \/ PutBool
    \/ GetBool
    \/ PutByte
    \/ GetByte
    \/ PutUnsignedByte
    \/ GetUnsignedByte
    \/ PutShort
    \/ GetShort
    \/ PutUnsignedShort
    \/ GetUnsignedShort
    \/ PutInt
    \/ GetInt
    \/ PutUnsignedInt
    \/ GetUnsignedInt
    \/ PutLong
    \/ GetLong
    \/ PutUnsignedLong
    \/ GetUnsignedLong
    \/ PutFloat
    \/ GetFloat
    \/ PutDouble
    \/ GetDouble
    \/ PutVarInt
    \/ GetVarInt
    \/ PutVarLong
    \/ GetVarLong
    \/ PutUnsignedVarInt
    \/ GetUnsignedVarInt
    \/ PutUnsignedVarLong
    \/ GetUnsignedVarLong
    \/ PutString
    \/ GetString
    \/ PutLittleShort
    \/ GetLittleShort
    \/ PutLittleUnsignedShort
    \/ GetLittleUnsignedShort
    \/ PutLittleInt
    \/ GetLittleInt
    \/ PutLittleUnsignedInt
    \/ GetLittleUnsignedInt
    \/ PutLittleLong
    \/ GetLittleLong
    \/ PutLittleUnsignedLong
    \/ GetLittleUnsignedLong
    \/ PutLittleFloat
    \/ GetLittleFloat
    \/ PutLittleDouble
    \/ GetLittleDouble
    \/ PutTriad
    \/ GetTriad
    \/ PutLittleTriad
    \/ GetLittleTriad
    \/ PutBytes
    \/ PutLengthPrefixedBytes
    \/ GetLengthPrefixedBytes
    \/ ResetStream
    \/ CallSetError
    \/ SetOffset
    \/ SetBuffer

Spec == InitStream /\ [][Next]_vars

-----------------------------------------------------------------------------
(* Properties of the primitive layer, checked under SpecCodec.             *)

\* The step is a call of the generic Read with a length >= 0.
ReadCalled == pc # "read" /\ pc' = "read" /\ op'.r.name = "Read" /\ ~IntNegative(op'.r.len)

\* C5: a generic Read at 0 <= offset <= len(buffer) with length >= 0 either
\* finds fewer than length bytes left (offset + length > len(buffer)), and
\* then returns an error and leaves the offset and the buffer as they were,
\* or returns exactly the bytes buffer[offset .. offset+length-1], advances
\* the offset by exactly length and leaves the buffer as it was.
C5_ReadContract ==
    [][ReadCalled =>
        /\ buffer' = buffer
        /\ IF IntLess(GoInt(Len(buffer) - offset, 16 * Len(op'.r.len)), op'.r.len)
           THEN op'.r.err # Nil /\ ~op'.r.panic /\ offset' = offset
           ELSE /\ op'.r.err = Nil
                /\ ~op'.r.panic
                /\ op'.r.out = [i \in 1..IntValue(op'.r.len) |-> buffer[offset + i]]
                /\ offset' = offset + IntValue(op'.r.len)]_vars

\* The innermost error of a wrapped error.
Cause(e) == e[Len(e)]

\* C6: a variable-length or string decode that fails because the buffer is
\* exhausted leaves the offset where it was before the call.
C6_NoPartialAdvance ==
    (/\ pc = "read" /\ op.r.name \in VarKinds
     /\ op.r.err # Nil /\ Cause(op.r.err) = "Not enough bytes to read")
        => offset = op.r.from

\* The encoded width of a fixed-width kind, in bytes.
KindWidth(k) ==
    IF k \in {"Bool", "Byte", "UnsignedByte"} THEN 1
    ELSE IF k \in {"Short", "UnsignedShort", "LittleShort", "LittleUnsignedShort"} THEN 2
    ELSE IF k \in {"Int", "UnsignedInt", "Float", "LittleInt", "LittleUnsignedInt", "LittleFloat"}
    THEN 4 ELSE 8

\* A value was appended by Write<k> and then decoded by the matching Read<k>
\* at the offset equal to the buffer's length before the write.
RoundTrip(k) ==
    pc = "read" /\ op.w.name = k /\ op.r.name = k /\ op.r.from = op.w.base

\* C7: for every fixed-width kind, in both byte orders, a value appended by
\* Write* and decoded by the matching Read* at the buffer's previous length
\* comes back unchanged, without error, the offset advanced by the kind's width.
C7_FixedRoundTrip ==
    \A k \in FixedKinds :
        RoundTrip(k) =>
            /\ op.r.err = Nil
            /\ op.r.out = op.w.v
            /\ offset = op.w.base + KindWidth(k)
            /\ Len(buffer) = op.w.base + KindWidth(k)

\* The signed 64-bit minimum round-trips in little-endian after a prefix.
C7_Witness ==
    RoundTrip("LittleLong") /\ op.w.base > 0 /\ op.w.v = MinSigned(64) /\ op.r.out = MinSigned(64)

\* The number of 7-bit groups of v: the smallest k >= 1 with v < 2^(7k).
Groups(v) ==
    CHOOSE k \in 1..10 :
        /\ \A i \in 1..Len(v) : i > 7 * k => v[i] = 0
        /\ \A m \in 1..(k - 1) : \E i \in 1..Len(v) : i > 7 * m /\ v[i] = 1

\* C8: WriteUnsignedVarInt / WriteUnsignedVarLong append exactly Groups(v)
\* bytes, every byte but the last with bit 0x80 set and the last with it
\* clear, and the matching read at the start of those bytes returns v and
\* advances the offset by Groups(v).
C8_UnsignedVarEncoding ==
    \A k \in {"UnsignedVarInt", "UnsignedVarLong"} :
        (pc # "init" /\ op.w.name = k) =>
            LET n == Groups(op.w.v) IN
            /\ Len(buffer) = op.w.base + n
            /\ n <= (IF k = "UnsignedVarInt" THEN 5 ELSE 10)
            /\ \A i \in 1..(n - 1) : buffer[op.w.base + i] >= 128
            /\ buffer[op.w.base + n] < 128
            /\ RoundTrip(k) =>
                   /\ op.r.err = Nil
                   /\ op.r.out = op.w.v
                   /\ offset = op.w.base + n

\* 2^32 - 1 took five bytes and was read back.
C8_Witness ==
    /\ RoundTrip("UnsignedVarInt") /\ op.w.v = Ones(32)
    /\ Len(buffer) = op.w.base + 5 /\ op.r.out = Ones(32)

\* The bytes of the buffer from Go index off on.
From(buf, off) == SubSeq(buf, off + 1, Len(buf))

\* The terminating byte (bit 0x80 clear) is among the first n bytes of s.
TerminatedWithin(s, n) == \E i \in 1..n : i <= Len(s) /\ s[i] < 128

\* The first n bytes of s all have bit 0x80 set and one more byte follows.
OverlongAt(s, n) == Len(s) > n /\ \A i \in 1..n : s[i] >= 128

\* C9: ReadUnsignedVarInt succeeds whenever the terminating byte is among the
\* first 5 bytes and fails as too big exactly when a 6th group is consumed;
\* ReadUnsignedVarLong likewise with 10 and an 11th group.
C9_GroupLimit ==
    /\ (pc = "read" /\ op.r.name = "UnsignedVarInt") =>
           LET s == From(buffer, op.r.from) IN
           /\ TerminatedWithin(s, 5) => op.r.err = Nil
           /\ (op.r.err = <<"Unsigned varint too big">>) <=> OverlongAt(s, 5)
    /\ (pc = "read" /\ op.r.name = "UnsignedVarLong") =>
           LET s == From(buffer, op.r.from) IN
           /\ TerminatedWithin(s, 10) => op.r.err = Nil
           /\ (op.r.err = <<"Unsigned var long too big">>) <=> OverlongAt(s, 10)

\* An 11th group was consumed by ReadUnsignedVarLong.
C9_Witness ==
    /\ pc = "read" /\ op.r.name = "UnsignedVarLong"
    /\ op.r.err = <<"Unsigned var long too big">>
    /\ OverlongAt(From(buffer, op.r.from), 10)

\* v & 0x000FFFFF.
Low20(v) == [i \in 1..32 |-> IF i <= 20 THEN v[i] ELSE 0]

\* C10: WriteLittleTriad / WriteBigTriad append exactly 3 bytes and the
\* matching read returns v & 0x000FFFFF, which is v exactly when v < 2^20.
C10_TriadMasking ==
    \A k \in {"LittleTriad", "BigTriad"} :
        (pc # "init" /\ op.w.name = k) =>
            /\ Len(buffer) = op.w.base + 3
            /\ RoundTrip(k) =>
                   /\ op.r.err = Nil
                   /\ op.r.out = Low20(op.w.v)
                   /\ offset = op.w.base + 3
                   /\ (op.r.out = op.w.v) <=> (\A i \in 21..32 : op.w.v[i] = 0)

\* 0xFFFFFFFF written as a little-endian triad read back as 0x000FFFFF.
C10_Witness ==
    /\ RoundTrip("LittleTriad") /\ op.w.v = Ones(32)
    /\ op.r.out = LowOnes(32, 20)

-----------------------------------------------------------------------------
(* Properties of the Stream, checked under Spec.                           *)

\* The zero value of the kind a Get* method returns.
ZeroOf(name) ==
    IF name = "GetBool" THEN FALSE
    ELSE IF name \in {"GetByte", "GetUnsignedByte"} THEN 0
    ELSE IF name \in {"GetShort", "GetUnsignedShort", "GetLittleShort", "GetLittleUnsignedShort"}
    THEN Zero(16)
    ELSE IF name \in {"GetInt", "GetUnsignedInt", "GetFloat", "GetLittleInt",
                      "GetLittleUnsignedInt", "GetLittleFloat", "GetTriad", "GetLittleTriad",
                      "GetVarInt", "GetUnsignedVarInt"}
    THEN Zero(32)
    ELSE IF name \in {"GetLong", "GetUnsignedLong", "GetDouble", "GetLittleLong",
                      "GetLittleUnsignedLong", "GetLittleDouble", "GetVarLong",
                      "GetUnsignedVarLong"}
    THEN Zero(64)
    ELSE <<>>

\* buf is a prefix of longer.
IsPrefix(buf, longer) == Len(buf) <= Len(longer) /\ SubSeq(longer, 1, Len(buf)) = buf

\* C1: once a Get* call has failed (and no setter has been called on the
\* stream), every later Get* call of any kind returns its kind's zero value
\* and leaves Offset unchanged, while every Put* call still appends to Buffer.
C1_FaultLatch ==
    [][(failed /\ ~setterCalled') =>
        /\ call'.kind = "get" => (call'.ret = ZeroOf(call'.op) /\ Offset' = Offset)
        /\ call'.kind = "put" =>
               /\ IsPrefix(Buffer, Buffer')
               /\ Len(Buffer') > Len(Buffer) \/ (call'.op = "PutBytes" /\ call'.arg = <<>>)]_vars

\* What the Read primitive behind a guarded Get* method decodes from buf at off.
Decoded(name, buf, off, bits) ==
    IF name = "GetVarInt" THEN ReadVarInt(buf, off, bits)
    ELSE IF name = "GetVarLong" THEN ReadVarLong(buf, off, bits)
    ELSE IF name = "GetUnsignedVarInt" THEN ReadUnsignedVarInt(buf, off, bits)
    ELSE IF name = "GetUnsignedVarLong" THEN ReadUnsignedVarLong(buf, off, bits)
    ELSE ReadString(buf, off, bits)

\* C2: on a stream from NewStream or NewGetStream on which no Get* call has
\* failed (and no setter has been called), GetVarInt, GetVarLong,
\* GetUnsignedVarInt, GetUnsignedVarLong and GetString return the value
\* decoded from Buffer at Offset and advance Offset by the bytes consumed.
C2_GuardedGetDecodes ==
    [][\A bits \in IntSizes :
        (/\ ~failed
         /\ ~setterCalled'
         /\ call'.op \in {"GetVarInt", "GetVarLong", "GetUnsignedVarInt",
                          "GetUnsignedVarLong", "GetString"}
         /\ ~Decoded(call'.op, Buffer, Offset, bits).panic
         /\ Decoded(call'.op, Buffer, Offset, bits).err = Nil)
         => /\ call'.ret = Decoded(call'.op, Buffer, Offset, bits).out
            /\ Offset' = Decoded(call'.op, Buffer, Offset, bits).offset]_vars

\* C3: on a stream no setter has been called on, Error() is nil in every
\* state before a Get* call has failed and not nil in every state after one
\* has; no Get* call makes it nil again and no Put* call changes whether it
\* is nil.
C3_CleanUntilFailure ==
    /\ []((~setterCalled /\ ~failed) => Error = NilError)
    /\ []((~setterCalled /\ failed) => Error # NilError)
    /\ [][(Error # NilError /\ call'.kind = "get") => Error' # NilError]_vars
    /\ [][call'.kind = "put" => ((Error' = NilError) <=> (Error = NilError))]_vars

\* C4: once a failing Get* has recorded a fault, its error and its offset
\* stay what they were, whatever Get*, Put* and ResetStream calls follow
\* (no setter being called).
C4_FaultNeverOverwritten ==
    [][(failed /\ ~setterCalled') => (err'.err = err.err /\ err'.offset = err.offset)]_vars

\* Byte k (0 the least significant) of the word v.
ByteAt(v, k) ==
    v[8 * k + 1] + 2 * v[8 * k + 2] + 4 * v[8 * k + 3] + 8 * v[8 * k + 4]
    + 16 * v[8 * k + 5] + 32 * v[8 * k + 6] + 64 * v[8 * k + 7] + 128 * v[8 * k + 8]

\* Bit i of the word v, 0 beyond its width.
BitOrZero(v, i) == IF i <= Len(v) THEN v[i] ELSE 0

\* The 7-bit group g (1 the least significant) of the word v.
GroupAt(v, g) ==
    BitOrZero(v, 7 * g - 6) + 2 * BitOrZero(v, 7 * g - 5) + 4 * BitOrZero(v, 7 * g - 4)
    + 8 * BitOrZero(v, 7 * g - 3) + 16 * BitOrZero(v, 7 * g - 2)
    + 32 * BitOrZero(v, 7 * g - 1) + 64 * BitOrZero(v, 7 * g)

\* The n low bytes of v, most significant first and least significant first.
BigEndian(v, n)    == [i \in 1..n |-> ByteAt(v, n - i)]
LittleEndian(v, n) == [i \in 1..n |-> ByteAt(v, i - 1)]

\* The base-128 encoding of the unsigned word v: its 7-bit groups, least
\* significant first, each but the last with the continuation bit 0x80.
Base128(v) ==
    [i \in 1..Groups(v) |->
        GroupAt(v, i) + (IF i < Groups(v) THEN 128 ELSE 0)]

\* The zig-zag image of the signed word v: 2v for v >= 0 and -2v - 1 for
\* v < 0, that is v shifted left by one with every bit flipped by the sign.
ZigZag(v) ==
    [i \in 1..Len(v) |-> IF i = 1 THEN v[Len(v)] ELSE (v[i - 1] + v[Len(v)]) % 2]

\* The wire encoding of the value v that the method name puts.
Encoding(name, v) ==
    IF name = "PutBool" THEN (IF v THEN <<1>> ELSE <<0>>)
    ELSE IF name \in {"PutByte", "PutUnsignedByte"} THEN <<v>>
    ELSE IF name \in {"PutShort", "PutUnsignedShort"} THEN BigEndian(v, 2)
    ELSE IF name \in {"PutInt", "PutUnsignedInt", "PutFloat"} THEN BigEndian(v, 4)
    ELSE IF name \in {"PutLong", "PutUnsignedLong", "PutDouble"} THEN BigEndian(v, 8)
    ELSE IF name \in {"PutLittleShort", "PutLittleUnsignedShort"} THEN LittleEndian(v, 2)
    ELSE IF name \in {"PutLittleInt", "PutLittleUnsignedInt", "PutLittleFloat"}
    THEN LittleEndian(v, 4)
    ELSE IF name \in {"PutLittleLong", "PutLittleUnsignedLong", "PutLittleDouble"}
    THEN LittleEndian(v, 8)
    ELSE IF name = "PutTriad" THEN BigEndian(v, 3)
    ELSE IF name = "PutLittleTriad" THEN LittleEndian(v, 3)
    ELSE IF name \in {"PutUnsignedVarInt", "PutUnsignedVarLong"} THEN Base128(v)
    ELSE IF name \in {"PutVarInt", "PutVarLong"} THEN Base128(ZigZag(v))
    ELSE IF name \in {"PutString", "PutLengthPrefixedBytes"}
    THEN Base128(FromInt(Len(v), 32)) \o v
    ELSE v

\* C11: every Put* call, whether or not a Get* has failed before it, leaves
\* Offset and the fault slot unchanged, keeps the previous Buffer as a prefix
\* of the new one, extends it by exactly the bytes of the value's encoding,
\* and does not fail.
C11_PutFrame ==
    [][call'.kind = "put" =>
        /\ Offset' = Offset
        /\ err' = err
        /\ IsPrefix(Buffer, Buffer')
        /\ Buffer' = Buffer \o Encoding(call'.op, call'.arg)
        /\ ~call'.failed
        /\ ~call'.panic]_vars

\* After a GetShort that failed one byte short of the end of the buffer,
\* PutVarInt(-1) appended its one byte behind the two already there.
C11_Witness ==
    /\ failed
    /\ call.op = "PutVarInt"
    /\ call.arg = Ones(32)
    /\ Buffer = <<128, 1, 1>>
    /\ Offset = 1

\* C12: on a stream from NewStream or NewGetStream on which no Get* call has
\* failed and no setter has been called, Get(n) with n < 0 returns the len(Buffer) - Offset - 1 bytes at
\* Offset and moves Offset to len(Buffer) - 1, where Feof() is true; and
\* Get(n) with 0 <= n <= len(Buffer) - Offset returns the n bytes at Offset
\* and advances Offset by n.
C12_BulkGet ==
    [][(~failed /\ ~setterCalled' /\ call'.op = "Get") =>
        /\ (call'.arg < 0 /\ Len(Buffer) - Offset - 1 >= 0) =>
               /\ call'.ret = SubSeq(Buffer, Offset + 1, Len(Buffer) - 1)
               /\ Offset' = Len(Buffer) - 1
               /\ Offset' >= Len(Buffer') - 1
        /\ (call'.arg >= 0 /\ call'.arg <= Len(Buffer) - Offset) =>
               /\ call'.ret = SubSeq(Buffer, Offset + 1, Offset + call'.arg)
               /\ Offset' = Offset + call'.arg]_vars

\* The bytes a Get* call that did not fail has read from Buffer: the width of
\* its kind for the fixed-width and triad methods; none for Get, the
\* variable-length methods and the string methods, which return at their
\* guard before they read.
Consumed(name) ==
    IF name \in {"GetBool", "GetByte", "GetUnsignedByte"} THEN 1
    ELSE IF name \in {"GetShort", "GetUnsignedShort", "GetLittleShort", "GetLittleUnsignedShort"}
    THEN 2
    ELSE IF name \in {"GetTriad", "GetLittleTriad"} THEN 3
    ELSE IF name \in {"GetInt", "GetUnsignedInt", "GetFloat", "GetLittleInt",
                      "GetLittleUnsignedInt", "GetLittleFloat"}
    THEN 4
    ELSE IF name \in {"GetLong", "GetUnsignedLong", "GetDouble", "GetLittleLong",
                      "GetLittleUnsignedLong", "GetLittleDouble"}
    THEN 8
    ELSE 0

\* C13: on a stream from NewStream, or from NewGetStream with
\* 0 <= offset <= len(buf), every state reached by Get*, Put*, Feof and
\* ResetStream calls, none of SetOffset, SetBuffer or SetError among them,
\* has 0 <= Offset <= len(Buffer); no call but ResetStream
\* decreases Offset; and every Get* call that does not fail increases Offset
\* by exactly the number of bytes it consumed.
C13_CursorInvariant ==
    /\ [](~setterCalled => (0 <= Offset /\ Offset <= Len(Buffer)))
    /\ [][(~setterCalled' /\ call'.kind # "reset") => Offset' >= Offset]_vars
    /\ [][(~setterCalled' /\ call'.kind = "get" /\ ~call'.failed) =>
              Offset' = Offset + Consumed(call'.op)]_vars

\* Two GetInt calls on the nine-byte buffer succeeded and left Offset at 8.
C13_Witness ==
    /\ calls = 2
    /\ call.op = "GetInt"
    /\ ~call.failed
    /\ Offset = 8
    /\ Len(Buffer) = 9

====
